---- MODULE Spec2Model ----
(***************************************************************************)
(* Model of the Knugget summary server: the Auth Gate                      *)
(* (src/middleware/authMiddleware.ts, both revisions in the file: a server *)
(* runs one of them), the summary routes                                   *)
(* (src/routes/summary.ts, first revision in the file), GET /auth/me       *)
(* (src/routes/auth.ts) and the Summarizer (src/services/generateSummary). *)
(*                                                                         *)
(* Every request is a process; it takes one step per stretch of code       *)
(* between two awaits, so that requests interleave exactly where the       *)
(* event loop lets them.  The persistent store (users, summaries) is the   *)
(* only state requests share.  Every store call and every external call    *)
(* may fail (throw) nondeterministically.                                  *)
(*                                                                         *)
(* Spec is the server as a whole and FairSpec adds that every awaited call  *)
(* ends; RoundTripSpec and ListSpec start from a store and from requests   *)
(* that have passed the gate, to study the flatten/parse cycle on more     *)
(* texts and the listing on more Summaries than Spec can create.           *)
(*                                                                         *)
(* Text is a sequence of tokens.  A token is one character, except KP and  *)
(* KPLOWER, which stand for the literal "Key Points:" and for a spelling   *)
(* of it in another letter case.                                           *)
(***************************************************************************)
EXTENDS Integers, Sequences, FiniteSets, TLC

(* ------------------------------ bounds -------------------------------- *)

\* Number of requests the clients issue in one behaviour.
MaxRequests == 2

\* Largest credit balance of a user already in the store initially.
MaxInitCredits == 1

\* Number of Summaries in the store when the listing is studied.
MaxStored == 3

(* ------------------------- program constants -------------------------- *)

\* credits: 10 in the create branch of the upsert.
InitialCredits == 10

Users == {"u1", "u2"}

Videos == {"v1", "v2"}

Reqs == 1..MaxRequests

\* Summary ids: every request creates at most one Summary.
Ids == 1..MaxRequests

(* ------------------------------- text --------------------------------- *)

NL == "\n"

SP == " "

DASH == "-"

KP == "Key Points:"

KPLOWER == "key points:"

\* String.prototype.trim: white space is stripped at both ends.
IsSpace(c) == c \in {NL, SP}

RECURSIVE TrimLeft(_)
TrimLeft(s) ==
  IF s = <<>> THEN <<>>
  ELSE IF IsSpace(Head(s)) THEN TrimLeft(Tail(s)) ELSE s

RECURSIVE TrimRight(_)
TrimRight(s) ==
  IF s = <<>> THEN <<>>
  ELSE IF IsSpace(s[Len(s)]) THEN TrimRight(SubSeq(s, 1, Len(s) - 1)) ELSE s

Trim(s) == TrimRight(TrimLeft(s))

\* String.prototype.split('-'): the pieces between the dashes.
RECURSIVE SplitDash(_)
SplitDash(s) ==
  LET dashes == {i \in 1..Len(s) : s[i] = DASH}
  IN IF dashes = {} THEN <<s>>
     ELSE LET i == CHOOSE j \in dashes : \A k \in dashes : j <= k
          IN <<SubSeq(s, 1, i - 1)>> \o SplitDash(SubSeq(s, i + 1, Len(s)))

\* .map(point => point.trim()).filter(point => point.length > 0)
RECURSIVE TrimAndDropEmpty(_)
TrimAndDropEmpty(ps) ==
  IF ps = <<>> THEN <<>>
  ELSE LET p == Trim(Head(ps))
       IN (IF p = <<>> THEN <<>> ELSE <<p>>) \o TrimAndDropEmpty(Tail(ps))

\* Least index in S, 0 when S is empty.
MinOrZero(S) == IF S = {} THEN 0 ELSE CHOOSE i \in S : \A j \in S : i <= j

\* Index of the first "\n\n" that starts at position from or later, else 0.
FirstBlankLine(s, from) ==
  MinOrZero({i \in from..(Len(s) - 1) : s[i] = NL /\ s[i + 1] = NL})

\* Array.prototype.join("\n") over the "- point" lines.
RECURSIVE JoinPoints(_)
JoinPoints(ps) ==
  IF ps = <<>> THEN <<>>
  ELSE <<DASH, SP>> \o Head(ps)
         \o (IF Tail(ps) = <<>> THEN <<>> ELSE <<NL>> \o JoinPoints(Tail(ps)))

\* `${title}\n\nKey Points:\n${points}\n\n${fullSummary}`
Flatten(c) ==
  c.title \o <<NL, NL, KP, NL>> \o JoinPoints(c.keyPoints) \o <<NL, NL>> \o c.fullSummary

\* /^(.*?)\n/ : the text before the first newline; no match without a newline.
TitleMatch(s) ==
  LET i == MinOrZero({j \in 1..Len(s) : s[j] = NL})
  IN [matched |-> i # 0, group |-> IF i = 0 THEN <<>> ELSE SubSeq(s, 1, i - 1)]

\* /Key Points:([\s\S]*?)(?=\n\n|$)/i : from the first marker, in any letter
\* case, up to the next blank line or the end of the text.
KeyPointsMatch(s) ==
  LET m == MinOrZero({j \in 1..Len(s) : s[j] \in {KP, KPLOWER}})
      e == IF m = 0 THEN 0 ELSE FirstBlankLine(s, m + 1)
  IN [matched |-> m # 0,
      group |-> IF m = 0 THEN <<>>
                ELSE IF e = 0 THEN SubSeq(s, m + 1, Len(s))
                ELSE SubSeq(s, m + 1, e - 1)]

\* /(?:Key Points:[\s\S]*?\n\n)([\s\S]*?)$/ : what follows the first blank
\* line after the first marker, spelled exactly.
FullSummaryMatch(s) ==
  LET m == MinOrZero({j \in 1..Len(s) : s[j] = KP})
      e == IF m = 0 THEN 0 ELSE FirstBlankLine(s, m + 1)
  IN [matched |-> e # 0,
      group |-> IF e = 0 THEN <<>> ELSE SubSeq(s, e + 2, Len(s))]

\* The parse of GET /summary/:id and GET /summary.
ParseStored(s) ==
  LET tm == TitleMatch(s)
      km == KeyPointsMatch(s)
      fm == FullSummaryMatch(s)
  IN [title |-> IF tm.matched THEN Trim(tm.group) ELSE <<>>,
      keyPoints |-> IF km.matched THEN TrimAndDropEmpty(SplitDash(km.group)) ELSE <<>>,
      fullSummary |-> IF km.matched /\ fm.matched THEN Trim(fm.group) ELSE s]

\* The parse of the cache path of POST /summary/generate: the title is read
\* from the stored text only when the key points marker is found.
ParseCached(s, metaTitle) ==
  LET tm == TitleMatch(s)
      km == KeyPointsMatch(s)
      fm == FullSummaryMatch(s)
  IN [title |-> IF km.matched /\ tm.matched THEN Trim(tm.group) ELSE metaTitle,
      keyPoints |-> IF km.matched THEN TrimAndDropEmpty(SplitDash(km.group)) ELSE <<>>,
      fullSummary |-> IF km.matched /\ fm.matched THEN Trim(fm.group) ELSE s]

(* ------------------------------ values -------------------------------- *)

EmptyContent == [title |-> <<>>, keyPoints |-> <<>>, fullSummary |-> <<>>]

\* metadata.title || "Video Summary"
DefaultTitle == <<"Video Summary">>

\* metadata as the client sends it: videoId "" is a missing metadata or
\* videoId, title <<>> a missing title.  The video URL is metadata.url or
\* the URL made of videoId, and goes by the name of the video here.
Metadatas ==
  { [videoId |-> "", title |-> <<>>],
    [videoId |-> "v1", title |-> <<"t">>],
    [videoId |-> "v2", title |-> <<>>] }

\* What the Summarizer extracts from a response of the generative API: key
\* points are trimmed, non-empty and free of dashes, the summary is not empty.
ApiOutputs ==
  { [keyPoints |-> << <<"a">> >>, fullSummary |-> <<"x">>],
    [keyPoints |-> << <<"a">>, <<"b">> >>, fullSummary |-> <<"y">>] }

\* The payload returned when the generative API call throws.
FailurePayload(title) ==
  [title |-> title,
   keyPoints |-> << <<"Summary generation failed">> >>,
   fullSummary |-> <<"Sorry, we couldn't generate a summary for this video. Error: ">>]

\* Bodies of POST /summary/save that pass its validation.
SaveContents ==
  { [title |-> <<"s">>, keyPoints |-> << <<"k">> >>, fullSummary |-> <<"f">>] }

\* Authorization headers: scheme and token; an absent header has neither.
ValidTokens == {"tok_u1", "tok_u2"}

TokenOwner == [t \in ValidTokens |-> IF t = "tok_u1" THEN "u1" ELSE "u2"]

Headers ==
  { [scheme |-> "", token |-> ""],
    [scheme |-> "Basic", token |-> "tok_u1"],
    [scheme |-> "Bearer", token |-> "expired"],
    [scheme |-> "Bearer", token |-> "tok_u1"],
    [scheme |-> "Bearer", token |-> "tok_u2"] }

Email == [u \in Users |-> IF u = "u1" THEN "e1" ELSE "e2"]

\* user_metadata as the identity provider reports it for each user; "" is an
\* absent field.
ProviderClaims ==
  [u \in Users |->
     IF u = "u1" THEN [full_name |-> "n", avatar_url |-> "i", provider |-> "google"]
     ELSE [full_name |-> "", avatar_url |-> "", provider |-> ""]]

Routes == {"generate", "list", "get", "save", "delete", "me"}

NoUser == [id |-> "", email |-> "", name |-> "", image |-> ""]

NoClaims == [full_name |-> "", avatar_url |-> "", provider |-> ""]

NoHeader == [scheme |-> "", token |-> ""]

\* dbUser before the gate of the second revision has read it.
NoDbUser == [found |-> FALSE, name |-> "", imageUrl |-> "", provider |-> ""]

\* The revisions of authMiddleware.
Revisions == {1, 2}

\* A request before it is issued.  route, header, body fields and locals are
\* the request's own state.  The rest records what happened to it: verdict
\* is how getUser ended, entryCredits the user's balance when the handler was
\* entered, hits the rows that matched the cache lookup when it ran and
\* cached the row it returned, checked how the credit check ended, called,
\* charged, created and removed what the request did to the outside world,
\* and after is the set of requests that were already answered when this one
\* was issued.
InitReq ==
  [pc |-> "idle", route |-> "", header |-> NoHeader, verdict |-> "",
   claims |-> NoClaims, entryCredits |-> -1, hits |-> {},
   dbUser |-> NoDbUser, user |-> NoUser, entered |-> FALSE,
   content |-> "", video |-> "", title |-> <<>>, sid |-> 0,
   userCredits |-> 0, checked |-> "no", summary |-> EmptyContent,
   status |-> 0, error |-> "", data |-> EmptyContent, creditsRemaining |-> -1,
   cached |-> 0, called |-> FALSE, apiFailed |-> FALSE,
   charged |-> FALSE, created |-> 0, removed |-> FALSE,
   page |-> 0, limit |-> 0, items |-> <<>>, total |-> -1, meCredits |-> -1,
   after |-> {}]

VARIABLES
  revision,   \* the revision of authMiddleware the server runs
  users,      \* the User table: id -> record, for the ids that have a record
  summaries,  \* the Summary table: id -> record
  nextId,     \* the id (and creation time) the next Summary gets
  req         \* the requests

vars == <<revision, users, summaries, nextId, req>>

Init ==
  /\ revision \in Revisions
  /\ \E S \in SUBSET Users :
       \E c \in [S -> 0..MaxInitCredits] :
         users = [u \in S |-> [credits |-> c[u], email |-> Email[u], name |-> "",
                               imageUrl |-> "", provider |-> "supabase"]]
  /\ summaries = <<>>
  /\ nextId = 1
  /\ req = [r \in Reqs |-> InitReq]

\* Mutant of Respond: the return after res.status(s).json(...) is missing.
RespondAndGoOn(r, s, e) ==
  [req[r] EXCEPT !.status = s, !.error = e]

\* res.status(s).json({error: e}) and the handler returns.
Respond(r, s, e) ==
  [req[r] EXCEPT !.pc = "done", !.status = s, !.error = e]

(* ----------------------------- Auth Gate ------------------------------ *)

\* Mutant of HeaderRejected: only the missing header is rejected.
HeaderRejectedWhenMissing(h) == h.scheme = ""

\* !authHeader || !authHeader.startsWith("Bearer ")
HeaderRejected(h) == h.scheme # "Bearer"

\* A client issues request r; authMiddleware runs up to its first await.
Start(r) ==
  /\ req[r].pc = "idle"
  /\ \A p \in Reqs : p < r => req[p].pc # "idle"
  /\ \E rt \in Routes, h \in Headers :
       LET q == [req[r] EXCEPT !.route = rt, !.header = h,
                               !.after = {p \in Reqs : req[p].pc = "done"}]
       IN req' = [req EXCEPT ![r] =
                    IF HeaderRejected(h)
                    THEN [q EXCEPT !.pc = "done", !.status = 401,
                                   !.error = "Missing or invalid Authorization header"]
                    ELSE [q EXCEPT !.pc = "getUser"]]
  /\ UNCHANGED <<revision, users, summaries, nextId>>

\* error || !user after supabase.auth.getUser(token)
VerifierRejects(token) == token \notin ValidTokens

\* supabase.auth.getUser(token) returns or throws.
AuthGetUser(r) ==
  /\ req[r].pc = "getUser"
  /\ \/ req' = [req EXCEPT ![r] =
                  [Respond(r, 500, "Authentication middleware failed") EXCEPT
                     !.verdict = "threw"]]
     \/ /\ VerifierRejects(req[r].header.token)
        /\ req' = [req EXCEPT ![r] =
                     [Respond(r, 401, "Invalid or expired token") EXCEPT
                        !.verdict = "rejected"]]
     \/ /\ ~VerifierRejects(req[r].header.token)
        /\ req' = [req EXCEPT ![r].pc = IF revision = 1 THEN "upsert" ELSE "findUser",
                              ![r].verdict = "user",
                              ![r].claims = ProviderClaims[TokenOwner[req[r].header.token]]]
  /\ UNCHANGED <<revision, users, summaries, nextId>>

\* x || y on strings
OrElse(x, y) == IF x # "" THEN x ELSE y

\* Mutant of UpsertUpdate: the update branch writes the credit grant too.
UpsertUpdateWithGrant(old, u, cl) ==
  [old EXCEPT !.email = Email[u],
              !.name = OrElse(cl.full_name, old.name),
              !.imageUrl = OrElse(cl.avatar_url, old.imageUrl),
              !.provider = OrElse(cl.provider, "oauth"),
              !.credits = InitialCredits]

\* The update branch of prisma.user.upsert: an undefined field is left alone.
UpsertUpdate(old, u, cl) ==
  [old EXCEPT !.email = Email[u],
              !.name = OrElse(cl.full_name, old.name),
              !.imageUrl = OrElse(cl.avatar_url, old.imageUrl),
              !.provider = OrElse(cl.provider, "oauth")]

\* The create branch of prisma.user.upsert.
UpsertCreate(u, cl) ==
  [credits |-> InitialCredits, email |-> Email[u], name |-> cl.full_name,
   imageUrl |-> cl.avatar_url, provider |-> OrElse(cl.provider, "oauth")]

\* prisma.user.upsert({where: {id}, update, create})
Upsert(tbl, u, cl) ==
  [v \in DOMAIN tbl \cup {u} |->
     IF v # u THEN tbl[v]
     ELSE IF u \in DOMAIN tbl THEN UpsertUpdate(tbl[u], u, cl)
     ELSE UpsertCreate(u, cl)]

\* What the gate does once the upsert has returned: attach the identity and
\* call next().
AfterSync(r, u, tbl) ==
  [req[r] EXCEPT !.pc = "handler", !.entered = TRUE, !.claims = NoClaims,
                 !.entryCredits = tbl[u].credits,
                 !.user = [id |-> u, email |-> Email[u],
                           name |-> req[r].claims.full_name,
                           image |-> req[r].claims.avatar_url]]

\* What the gate does when the upsert has thrown: the catch block.
SyncFailed(r, u) ==
  [Respond(r, 500, "Authentication middleware failed") EXCEPT !.claims = NoClaims,
                                                             !.dbUser = NoDbUser]

\* await prisma.user.upsert(...) returns or throws.
AuthUpsert(r) ==
  /\ req[r].pc = "upsert"
  /\ LET u == TokenOwner[req[r].header.token]
     IN \/ /\ users' = Upsert(users, u, req[r].claims)
           /\ req' = [req EXCEPT ![r] = AfterSync(r, u, Upsert(users, u, req[r].claims))]
        \/ /\ req' = [req EXCEPT ![r] = SyncFailed(r, u)]
           /\ UNCHANGED users
  /\ UNCHANGED <<revision, summaries, nextId>>

\* Second revision: await prisma.user.findUnique(...) returns or throws.
AuthFindUser(r) ==
  /\ req[r].pc = "findUser"
  /\ LET u == TokenOwner[req[r].header.token]
     IN \/ req' = [req EXCEPT ![r] = SyncFailed(r, u)]
        \/ /\ u \notin DOMAIN users
           /\ req' = [req EXCEPT ![r].pc = "createUser"]
        \/ /\ u \in DOMAIN users
           /\ req' = [req EXCEPT ![r].pc = "updateUser",
                                 ![r].dbUser = [found |-> TRUE, name |-> users[u].name,
                                                imageUrl |-> users[u].imageUrl,
                                                provider |-> users[u].provider]]
  /\ UNCHANGED <<revision, users, summaries, nextId>>

\* Second revision: the identity attached once dbUser is the written record.
AfterWrite(r, u, written) ==
  [req[r] EXCEPT !.pc = "handler", !.entered = TRUE, !.claims = NoClaims,
                 !.dbUser = NoDbUser, !.entryCredits = written.credits,
                 !.user = [id |-> u, email |-> Email[u],
                           name |-> OrElse(req[r].claims.full_name, written.name),
                           image |-> OrElse(req[r].claims.avatar_url, written.imageUrl)]]

\* Second revision: await prisma.user.create(...) returns, or throws (also
\* when the record exists by now).
AuthCreateUser(r) ==
  /\ req[r].pc = "createUser"
  /\ LET u == TokenOwner[req[r].header.token]
         new == UpsertCreate(u, req[r].claims)
     IN \/ /\ u \notin DOMAIN users
           /\ users' = [v \in DOMAIN users \cup {u} |-> IF v = u THEN new ELSE users[v]]
           /\ req' = [req EXCEPT ![r] = AfterWrite(r, u, new)]
        \/ /\ req' = [req EXCEPT ![r] = SyncFailed(r, u)]
           /\ UNCHANGED users
  /\ UNCHANGED <<revision, summaries, nextId>>

\* Second revision: the data of prisma.user.update; a field the provider
\* does not report falls back on dbUser as findUnique returned it.
UpdateData(old, u, cl, db) ==
  [old EXCEPT !.email = Email[u],
              !.name = OrElse(cl.full_name, db.name),
              !.imageUrl = OrElse(cl.avatar_url, db.imageUrl),
              !.provider = OrElse(cl.provider, OrElse(db.provider, "oauth"))]

\* Second revision: await prisma.user.update(...) returns or throws.
AuthUpdateUser(r) ==
  /\ req[r].pc = "updateUser"
  /\ LET u == TokenOwner[req[r].header.token]
     IN \/ /\ u \in DOMAIN users
           /\ LET new == UpdateData(users[u], u, req[r].claims, req[r].dbUser)
              IN /\ users' = [users EXCEPT ![u] = new]
                 /\ req' = [req EXCEPT ![r] = AfterWrite(r, u, new)]
        \/ /\ req' = [req EXCEPT ![r] = SyncFailed(r, u)]
           /\ UNCHANGED users
  /\ UNCHANGED <<revision, summaries, nextId>>

(* ------------------------- POST /summary/generate --------------------- *)

\* The handler up to its first await: validation, then the cache lookup is
\* issued.  content is "" (absent or empty), "blank" (white space only) or
\* "text".
GenValidate(r) ==
  /\ req[r].pc = "handler"
  /\ req[r].route = "generate"
  /\ \E content \in {"", "blank", "text"}, metadata \in Metadatas :
       IF content = ""
       THEN req' = [req EXCEPT ![r] = Respond(r, 400, "Content (transcript) is required")]
       ELSE IF metadata.videoId = ""
       THEN req' = [req EXCEPT ![r] =
                      Respond(r, 400, "Video metadata with videoId is required")]
       ELSE req' = [req EXCEPT ![r].pc = "findExisting", ![r].content = content,
                               ![r].video = metadata.videoId, ![r].title = metadata.title]
  /\ UNCHANGED <<revision, users, summaries, nextId>>

\* Mutant of FindFirstByVideo: the where clause is lost.
FindFirstOfAnyVideo(v) ==
  IF DOMAIN summaries = {} THEN {0} ELSE DOMAIN summaries

\* prisma.summary.findFirst({where: {videoUrl}}): no orderBy, so any of the
\* matching rows may be the one returned; 0 stands for null.
FindFirstByVideo(v) ==
  LET hits == {i \in DOMAIN summaries : summaries[i].videoUrl = v}
  IN IF hits = {} THEN {0} ELSE hits

\* metadata.title || "Video Summary"
TitleOrDefault(t) == IF t # <<>> THEN t ELSE DefaultTitle

\* The cache lookup returns or throws; a hit is answered from the stored
\* text, a miss or a failed lookup goes on to the credit check.
GenFindExisting(r) ==
  /\ req[r].pc = "findExisting"
  /\ \/ req' = [req EXCEPT ![r].pc = "checkCredits",
                           ![r].hits = FindFirstByVideo(req[r].video) \ {0}]
     \/ \E i \in FindFirstByVideo(req[r].video) :
          IF i = 0
          THEN req' = [req EXCEPT ![r].pc = "checkCredits"]
          ELSE req' = [req EXCEPT ![r] =
                 [Respond(r, 200, "") EXCEPT
                    !.cached = i,
                    !.hits = FindFirstByVideo(req[r].video),
                    !.data = ParseCached(summaries[i].summary,
                                         TitleOrDefault(req[r].title))]]
  /\ UNCHANGED <<revision, users, summaries, nextId>>

\* generateSummary(content, metadata) up to its first await: a blank
\* transcript throws, which the handler's outer catch answers with 500.
CallSummarizer(q) ==
  IF q.content = "blank"
  THEN [q EXCEPT !.pc = "done", !.status = 500, !.error = "Failed to generate summary",
                 !.called = TRUE]
  ELSE [q EXCEPT !.pc = "summarize", !.called = TRUE]

\* user.credits < 1
Insufficient(credits) == credits < 1

\* The credit check: prisma.user.findUnique returns or throws.  A throw is
\* caught and logged, and the handler goes on with userCredits = 0.
GenCheckCredits(r) ==
  /\ req[r].pc = "checkCredits"
  /\ LET u == req[r].user.id
     IN \/ req' = [req EXCEPT ![r] = CallSummarizer([req[r] EXCEPT !.checked = "failed"])]
        \/ /\ u \notin DOMAIN users
           /\ req' = [req EXCEPT ![r] = Respond(r, 404, "User not found")]
        \/ /\ u \in DOMAIN users
           /\ IF Insufficient(users[u].credits)
              THEN req' = [req EXCEPT ![r] = Respond(r, 403, "Insufficient credits")]
              ELSE req' = [req EXCEPT ![r] =
                             CallSummarizer([req[r] EXCEPT !.checked = "ok",
                                               !.userCredits = users[u].credits])]
  /\ UNCHANGED <<revision, users, summaries, nextId>>

\* The generative API call returns a text, which is parsed, or throws, which
\* generateSummary turns into the failure payload it returns.  The handler
\* then rejects an empty fullSummary and issues the transaction.
GenSummarize(r) ==
  /\ req[r].pc = "summarize"
  /\ \E failed \in BOOLEAN :
       \E o \in IF failed THEN {FailurePayload(TitleOrDefault(req[r].title))}
                ELSE {[title |-> TitleOrDefault(req[r].title), keyPoints |-> a.keyPoints,
                       fullSummary |-> a.fullSummary] : a \in ApiOutputs} :
         IF o.fullSummary = <<>>
         THEN req' = [req EXCEPT ![r] = Respond(r, 500, "Failed to generate summary")]
         ELSE req' = [req EXCEPT ![r].pc = "transaction", ![r].summary = o,
                                 ![r].apiFailed = failed]
  /\ UNCHANGED <<revision, users, summaries, nextId>>

\* Mutant of CreateSummary: the owner reference is the user's email.
CreateSummaryByEmail(tbl, id, u, v, text, transcript) ==
  [i \in DOMAIN tbl \cup {id} |->
     IF i # id THEN tbl[i]
     ELSE [userId |-> Email[u], videoUrl |-> v, summary |-> text,
           transcript |-> transcript, createdAt |-> id]]

\* prisma.summary.create({data})
CreateSummary(tbl, id, u, v, text, transcript) ==
  [i \in DOMAIN tbl \cup {id} |->
     IF i # id THEN tbl[i]
     ELSE [userId |-> u, videoUrl |-> v, summary |-> text,
           transcript |-> transcript, createdAt |-> id]]

\* credits: {decrement: 1}
Decrement(credits) == credits - 1

\* prisma.user.update({where: {id}, data: {credits: {decrement: 1}}})
DecrementCredits(tbl, u) == [tbl EXCEPT ![u].credits = Decrement(tbl[u].credits)]

\* Mutant of TransactionOutcomes: two separate writes, the second of which
\* may fail after the first is committed.
SeparateWriteOutcomes ==
  { [create |-> TRUE, decrement |-> TRUE], [create |-> FALSE, decrement |-> FALSE],
    [create |-> TRUE, decrement |-> FALSE] }

\* The outcomes of prisma.$transaction([create, update]): both writes are
\* committed or, when the transaction throws, neither is.
TransactionOutcomes ==
  { [create |-> TRUE, decrement |-> TRUE], [create |-> FALSE, decrement |-> FALSE] }

\* Math.max(0, userCredits - 1)
CreditsRemaining(userCredits) == IF userCredits - 1 > 0 THEN userCredits - 1 ELSE 0

\* The transaction returns or throws; a throw is caught and logged, and the
\* handler answers with the summary either way.
GenTransaction(r) ==
  /\ req[r].pc = "transaction"
  /\ LET u == req[r].user.id
     IN \E o \in TransactionOutcomes :
          /\ o.decrement => u \in DOMAIN users
          /\ summaries' = IF o.create
                          THEN CreateSummary(summaries, nextId, u, req[r].video,
                                             Flatten(req[r].summary), req[r].content)
                          ELSE summaries
          /\ nextId' = IF o.create THEN nextId + 1 ELSE nextId
          /\ users' = IF o.decrement THEN DecrementCredits(users, u) ELSE users
          /\ req' = [req EXCEPT ![r] =
               [Respond(r, 200, "") EXCEPT
                  !.data = req[r].summary,
                  !.creditsRemaining = CreditsRemaining(req[r].userCredits),
                  !.created = IF o.create THEN nextId ELSE 0,
                  !.charged = o.decrement]]
  /\ UNCHANGED revision

(* --------------------------- POST /summary/save ----------------------- *)

\* The handler up to its first await.  complete tells whether videoId, title
\* and fullSummary are all there, hasPoints whether keyPoints is an array:
\* keyPoints.map on a missing keyPoints throws inside the try block.
\* bodies are the complete bodies the client may send.
SaveValidateWith(r, bodies) ==
  /\ req[r].pc = "handler"
  /\ req[r].route = "save"
  /\ \E complete \in BOOLEAN, hasPoints \in BOOLEAN :
       IF ~complete
       THEN req' = [req EXCEPT ![r] = Respond(r, 400, "Missing required fields")]
       ELSE IF ~hasPoints
       THEN req' = [req EXCEPT ![r] = Respond(r, 500, "Failed to create summary")]
       ELSE \E v \in Videos, c \in bodies :
              req' = [req EXCEPT ![r].pc = "saveCreate", ![r].video = v, ![r].summary = c]
  /\ UNCHANGED <<revision, users, summaries, nextId>>

SaveValidate(r) == SaveValidateWith(r, SaveContents)

\* prisma.summary.create returns or throws.
SaveCreate(r) ==
  /\ req[r].pc = "saveCreate"
  /\ \/ /\ summaries' = CreateSummary(summaries, nextId, req[r].user.id, req[r].video,
                                      Flatten(req[r].summary), "")
        /\ nextId' = nextId + 1
        /\ req' = [req EXCEPT ![r] = [Respond(r, 200, "") EXCEPT !.created = nextId]]
     \/ /\ req' = [req EXCEPT ![r] = Respond(r, 500, "Failed to create summary")]
        /\ UNCHANGED <<summaries, nextId>>
  /\ UNCHANGED <<revision, users>>

(* ------------------- GET and DELETE /summary/:id ---------------------- *)

\* Mutant of FindFirstByIdAndOwner: the row is looked up by id alone.
FindFirstById(id, u) == IF id \in DOMAIN summaries THEN id ELSE 0

\* prisma.summary.findFirst({where: {id, userId}}); 0 stands for null.
FindFirstByIdAndOwner(id, u) ==
  IF id \in DOMAIN summaries /\ summaries[id].userId = u THEN id ELSE 0

\* The handler of GET /:id up to its first await.
GetStart(r) ==
  /\ req[r].pc = "handler"
  /\ req[r].route = "get"
  /\ \E id \in Ids : req' = [req EXCEPT ![r].pc = "getFind", ![r].sid = id]
  /\ UNCHANGED <<revision, users, summaries, nextId>>

\* The lookup returns or throws.
GetFind(r) ==
  /\ req[r].pc = "getFind"
  /\ \/ req' = [req EXCEPT ![r] = Respond(r, 500, "Failed to fetch summary")]
     \/ LET i == FindFirstByIdAndOwner(req[r].sid, req[r].user.id)
        IN IF i = 0
           THEN req' = [req EXCEPT ![r] = Respond(r, 404, "Summary not found")]
           ELSE req' = [req EXCEPT ![r] =
                  [Respond(r, 200, "") EXCEPT !.data = ParseStored(summaries[i].summary),
                                              !.video = summaries[i].videoUrl]]
  /\ UNCHANGED <<revision, users, summaries, nextId>>

\* The handler of DELETE /:id up to its first await.
DeleteStart(r) ==
  /\ req[r].pc = "handler"
  /\ req[r].route = "delete"
  /\ \E id \in Ids : req' = [req EXCEPT ![r].pc = "deleteFind", ![r].sid = id]
  /\ UNCHANGED <<revision, users, summaries, nextId>>

\* The ownership lookup returns or throws.
DeleteFind(r) ==
  /\ req[r].pc = "deleteFind"
  /\ \/ req' = [req EXCEPT ![r] = Respond(r, 500, "Failed to delete summary")]
     \/ LET i == FindFirstByIdAndOwner(req[r].sid, req[r].user.id)
        IN IF i = 0
           THEN req' = [req EXCEPT ![r] = Respond(r, 404, "Summary not found")]
           ELSE req' = [req EXCEPT ![r].pc = "deleteRow"]
  /\ UNCHANGED <<revision, users, summaries, nextId>>

\* prisma.summary.delete({where: {id}}) returns, or throws (also when the
\* row is gone by now).
DeleteRow(r) ==
  /\ req[r].pc = "deleteRow"
  /\ \/ /\ req[r].sid \in DOMAIN summaries
        /\ summaries' = [i \in DOMAIN summaries \ {req[r].sid} |-> summaries[i]]
        /\ req' = [req EXCEPT ![r] = [Respond(r, 200, "") EXCEPT !.removed = TRUE]]
     \/ /\ req' = [req EXCEPT ![r] = Respond(r, 500, "Failed to delete summary")]
        /\ UNCHANGED summaries
  /\ UNCHANGED <<revision, users, nextId>>

(* ----------------------------- GET /summary --------------------------- *)

\* page and limit after parseInt(...) || default.
PageValues == {1, 2}

LimitValues == {1, 2}

\* The ids of owner u, newest first (orderBy: {createdAt: "desc"}).
RECURSIVE NewestFirst(_)
NewestFirst(S) ==
  IF S = {} THEN <<>>
  ELSE LET i == CHOOSE j \in S : \A k \in S : summaries[k].createdAt <= summaries[j].createdAt
       IN <<i>> \o NewestFirst(S \ {i})

\* Mutant of FindManyByOwner: the where clause is lost.
FindManyOfAnyOwner(u, skip, take) ==
  LET all == NewestFirst(DOMAIN summaries)
      last == IF skip + take < Len(all) THEN skip + take ELSE Len(all)
  IN SubSeq(all, skip + 1, last)

\* findMany({where: {userId}, orderBy, skip, take})
FindManyByOwner(u, skip, take) ==
  LET all == NewestFirst({i \in DOMAIN summaries : summaries[i].userId = u})
      last == IF skip + take < Len(all) THEN skip + take ELSE Len(all)
  IN SubSeq(all, skip + 1, last)

\* count({where: {userId}})
CountByOwner(u) == Cardinality({i \in DOMAIN summaries : summaries[i].userId = u})

\* The handler up to its await: both queries of Promise.all are issued.
ListStart(r) ==
  /\ req[r].pc = "handler"
  /\ req[r].route = "list"
  /\ \E p \in PageValues, l \in LimitValues :
       req' = [req EXCEPT ![r].pc = "listFindMany", ![r].page = p, ![r].limit = l]
  /\ UNCHANGED <<revision, users, summaries, nextId>>

\* findMany returns or throws.
ListFindMany(r) ==
  /\ req[r].pc = "listFindMany"
  /\ \/ req' = [req EXCEPT ![r] = Respond(r, 500, "Failed to fetch summaries")]
     \/ req' = [req EXCEPT ![r].pc = "listCount",
                           ![r].items = FindManyByOwner(req[r].user.id,
                                          (req[r].page - 1) * req[r].limit, req[r].limit)]
  /\ UNCHANGED <<revision, users, summaries, nextId>>

\* count returns or throws; the handler answers.
ListCount(r) ==
  /\ req[r].pc = "listCount"
  /\ \/ req' = [req EXCEPT ![r] =
                  [Respond(r, 500, "Failed to fetch summaries") EXCEPT !.items = <<>>]]
     \/ req' = [req EXCEPT ![r] =
                  [Respond(r, 200, "") EXCEPT !.total = CountByOwner(req[r].user.id)]]
  /\ UNCHANGED <<revision, users, summaries, nextId>>

(* ------------------------------ GET /auth/me -------------------------- *)

\* The handler up to its await.
MeStart(r) ==
  /\ req[r].pc = "handler"
  /\ req[r].route = "me"
  /\ req' = [req EXCEPT ![r].pc = "meFind"]
  /\ UNCHANGED <<revision, users, summaries, nextId>>

\* prisma.user.findUnique returns or throws.
MeFind(r) ==
  /\ req[r].pc = "meFind"
  /\ LET u == req[r].user.id
     IN \/ req' = [req EXCEPT ![r] = Respond(r, 500, "Server error")]
        \/ /\ u \notin DOMAIN users
           /\ req' = [req EXCEPT ![r] = Respond(r, 404, "User not found")]
        \/ /\ u \in DOMAIN users
           /\ req' = [req EXCEPT ![r] =
                        [Respond(r, 200, "") EXCEPT !.meCredits = users[u].credits]]
  /\ UNCHANGED <<revision, users, summaries, nextId>>

(* --------------------------- specification ---------------------------- *)

\* A step of request r after the client has issued it: the code that runs
\* when the call the request awaits returns or throws.
Handle(r) ==
  \/ AuthGetUser(r)
  \/ AuthUpsert(r)
  \/ AuthFindUser(r)
  \/ AuthCreateUser(r)
  \/ AuthUpdateUser(r)
  \/ GenValidate(r)
  \/ GenFindExisting(r)
  \/ GenCheckCredits(r)
  \/ GenSummarize(r)
  \/ GenTransaction(r)
  \/ SaveValidate(r)
  \/ SaveCreate(r)
  \/ GetStart(r)
  \/ GetFind(r)
  \/ DeleteStart(r)
  \/ DeleteFind(r)
  \/ DeleteRow(r)
  \/ ListStart(r)
  \/ ListFindMany(r)
  \/ ListCount(r)
  \/ MeStart(r)
  \/ MeFind(r)

Next ==
  \E r \in Reqs :
    \/ Start(r)
    \/ Handle(r)

Spec == Init /\ [][Next]_vars

\* Every call a request awaits returns or throws in the end, and the event
\* loop then runs the code that awaits it; clients need not issue requests.
\* The directory holds u1 alone at the start, so that the gate updates one
\* User and creates the other.
FairInit == Init /\ DOMAIN users = {"u1"}

FairSpec == FairInit /\ [][Next]_vars /\ \A r \in Reqs : WF_vars(Handle(r))

(* ---------------- specification of the flatten/parse cycle ------------- *)

\* Titles a client may send to POST /summary/save: plain, with a leading
\* space, with the key points marker in it, and with a newline in it.
RoundTripTitles == { <<"s">>, <<SP, "s">>, <<KP, "s">>, <<"s", NL, "t">> }

\* Key point lists: none, one, two, a point with a dash in it, a point that
\* ends in a space, and an empty point.
RoundTripKeyPoints ==
  { <<>>, << <<"k">> >>, << <<"k">>, <<"m">> >>, << <<"k", DASH, "m">> >>,
    << <<"k", SP>> >>, << <<>> >> }

\* Full summaries: one paragraph, two paragraphs, and one that ends in a space.
RoundTripSummaries == { <<"f">>, <<"f", NL, NL, "g">>, <<"f", SP>> }

RoundTripContents ==
  { [title |-> t, keyPoints |-> k, fullSummary |-> f] :
      t \in RoundTripTitles, k \in RoundTripKeyPoints, f \in RoundTripSummaries }

\* Both users are in the directory, u1 has passed the gate with every
\* request: the first is a POST /summary/save, the others GET /summary/:id.
RoundTripInit ==
  /\ revision \in Revisions
  /\ users = [u \in Users |->
                IF u = "u1" THEN UpsertCreate(u, ProviderClaims[u])
                ELSE [credits |-> 0, email |-> Email[u], name |-> "",
                      imageUrl |-> "", provider |-> "supabase"]]
  /\ summaries = <<>>
  /\ nextId = 1
  /\ req = [r \in Reqs |->
              [InitReq EXCEPT !.pc = "handler", !.entered = TRUE, !.verdict = "user",
                              !.route = IF r = 1 THEN "save" ELSE "get",
                              !.header = [scheme |-> "Bearer", token |-> "tok_u1"],
                              !.entryCredits = InitialCredits,
                              !.user = [id |-> "u1", email |-> Email["u1"],
                                        name |-> "n", image |-> "i"]]]

RoundTripSaveValidate(r) == SaveValidateWith(r, RoundTripContents)

RoundTripNext ==
  \E r \in Reqs :
    \/ RoundTripSaveValidate(r)
    \/ SaveCreate(r)
    \/ GetStart(r)
    \/ GetFind(r)

RoundTripSpec == RoundTripInit /\ [][RoundTripNext]_vars

(* ----------------------- specification of the listing ----------------- *)

\* The creation times of the stored Summaries: ids do not tell the order.
CreationOrders ==
  {f \in [1..MaxStored -> 1..MaxStored] : \A i, j \in 1..MaxStored : f[i] = f[j] => i = j}

ListRoutes == {"list", "save", "delete"}

\* MaxStored Summaries of any owners are in the store, made at different
\* times; u1 has passed the gate with every request: the first is a
\* GET /summary, the others list, save or delete.
ListInit ==
  /\ revision = 1
  /\ users = [u \in Users |-> UpsertCreate(u, ProviderClaims[u])]
  /\ \E owner \in [1..MaxStored -> Users], t \in CreationOrders :
       summaries = [i \in 1..MaxStored |->
                      [userId |-> owner[i], videoUrl |-> "v1",
                       summary |-> Flatten(CHOOSE c \in SaveContents : TRUE),
                       transcript |-> "", createdAt |-> t[i]]]
  /\ nextId = MaxStored + 1
  /\ \E route \in [Reqs -> ListRoutes] :
       /\ route[1] = "list"
       /\ req = [r \in Reqs |->
                   [InitReq EXCEPT !.pc = "handler", !.entered = TRUE, !.verdict = "user",
                                   !.route = route[r],
                                   !.header = [scheme |-> "Bearer", token |-> "tok_u1"],
                                   !.entryCredits = InitialCredits,
                                   !.user = [id |-> "u1", email |-> Email["u1"],
                                             name |-> "n", image |-> "i"]]]

ListNext ==
  \E r \in Reqs :
    \/ ListStart(r)
    \/ ListFindMany(r)
    \/ ListCount(r)
    \/ SaveValidate(r)
    \/ SaveCreate(r)
    \/ DeleteStart(r)
    \/ DeleteFind(r)
    \/ DeleteRow(r)

ListSpec == ListInit /\ [][ListNext]_vars

(* ------------------------------- claims ------------------------------- *)

\* The request that created Summary i.
Creator(i) == CHOOSE q \in Reqs : req[q].created = i

\* A generate request whose body passed the validation.
ValidGenerate(r) == req[r].route = "generate" /\ req[r].video # ""

\* The steps of the gate in which the User Directory is synchronised.
SyncPcs == {"upsert", "findUser", "createUser", "updateUser"}

\* C1: in every reachable state every User's credit balance is >= 0.
C1_CreditsNeverNegative == \A u \in DOMAIN users : users[u].credits >= 0

\* C2: a generate request of a user whose balance is 0 when the handler is
\* entered is answered 403 "Insufficient credits" and calls no Summarizer,
\* deducts no credit and creates no Summary.
C2_ZeroBalanceRejected ==
  \A r \in Reqs :
    (ValidGenerate(r) /\ req[r].entryCredits = 0)
      => /\ ~req[r].called
         /\ ~req[r].charged
         /\ req[r].created = 0
         /\ req[r].pc = "done" => (req[r].status = 403 /\ req[r].error = "Insufficient credits")

\* A request that carries no valid bearer credential: the header is missing,
\* is not a Bearer header, or holds a token the Identity Verifier rejects.
LacksCredential(q) == q.header.scheme # "Bearer" \/ q.header.token \notin ValidTokens

\* C3: a request without a valid bearer credential is answered 401 (unless
\* the Identity Verifier itself threw), never enters the route handler, and
\* none of its steps changes the User or the Summary store.
C3_UnauthenticatedRejected ==
  [][\A r \in Reqs :
       (req'[r] # req[r] /\ LacksCredential(req'[r]))
         => /\ users' = users
            /\ summaries' = summaries
            /\ ~req'[r].entered
            /\ req'[r].pc \in {"getUser", "done"}
            /\ (req'[r].pc = "done" /\ req'[r].verdict # "threw") => req'[r].status = 401]_vars

\* C3 witness: one request was turned away for its header and another for a
\* token the Identity Verifier rejected.
C3_Witness ==
  \E r1, r2 \in Reqs :
    /\ req[r1].pc = "done" /\ req[r1].header.scheme # "Bearer" /\ req[r1].status = 401
    /\ req[r2].pc = "done" /\ req[r2].verdict = "rejected" /\ req[r2].status = 401
    /\ req[r2].route = "generate"

\* What a request for a Summary tells the client: status, error, content and
\* source URL.
Answer(r) == <<req[r].status, req[r].error, req[r].data, req[r].video>>

\* A GET or DELETE /summary/:id that is answered and whose id is the id of a
\* stored Summary of another user.
ForeignTarget(r) ==
  /\ req[r].route \in {"get", "delete"}
  /\ req[r].pc = "done"
  /\ req[r].entered
  /\ req[r].sid \in DOMAIN summaries
  /\ summaries[req[r].sid].userId # req[r].user.id

\* What the same route answers for an id that no Summary has: 404 when the
\* lookup returns null, the route's 500 when the lookup throws.
MissingAnswers(route) ==
  { <<404, "Summary not found", EmptyContent, "">>,
    <<500, IF route = "get" THEN "Failed to fetch summary" ELSE "Failed to delete summary",
      EmptyContent, "">> }

C5_GenerateIdempotent ==
  \A r1, r2 \in Reqs :
    ( /\ ValidGenerate(r1) /\ ValidGenerate(r2)
      /\ r1 \in req[r2].after
      /\ req[r1].video = req[r2].video
      /\ req[r2].pc = "done"
      /\ req[r1].status = 200 /\ req[r2].status = 200 )
      => /\ req[r1].data = req[r2].data
         /\ ~(req[r1].charged /\ req[r2].charged)

\* The request is answered from the cache: with the content of a Summary
\* stored for the video it asks for, without a Summarizer call, a Summary of
\* its own or a credit deducted.
CacheServed(r) ==
  /\ req[r].pc = "done"
  /\ req[r].status = 200
  /\ req[r].cached \in req[r].hits
  /\ req[Creator(req[r].cached)].video = req[r].video
  /\ req[r].data = req[Creator(req[r].cached)].summary
  /\ ~req[r].called
  /\ ~req[r].charged
  /\ req[r].created = 0
  /\ req[r].creditsRemaining = -1

\* Some Summary that matched the cache lookup of r belongs to another user.
OtherUsersHit(r) ==
  \E i \in req[r].hits : req[Creator(i)].user.id # req[r].user.id

Alone(r) == \A q \in Reqs \ {r} : q \in req[r].after \/ req[q].pc = "idle"

\* C7: a generate request with a transcript, for an uncached video, of a user
\* with balance n >= 1 and with no other request in flight, succeeds, leaves
\* the stored balance at n - 1 and reports that balance as creditsRemaining.
C7_GenerateChargesOne ==
  \A r \in Reqs :
    ( /\ ValidGenerate(r) /\ req[r].content = "text"
      /\ req[r].pc = "done"
      /\ req[r].entryCredits >= 1
      /\ req[r].hits = {}
      /\ Alone(r) )
      => /\ req[r].status = 200
         /\ users[req[r].user.id].credits = req[r].entryCredits - 1
         /\ req[r].creditsRemaining = users[req[r].user.id].credits

\* The generate requests of user u.
GenerateBy(u) == {r \in Reqs : req[r].route = "generate" /\ req[r].user.id = u}

\* C8: the Summaries created by a user's generate requests are as many as
\* the credits those requests deducted, and a request has created a Summary
\* exactly if it has deducted a credit.
C8_WriteAndChargeAtomic ==
  /\ \A u \in Users :
       Cardinality({r \in GenerateBy(u) : req[r].created # 0})
         = Cardinality({r \in GenerateBy(u) : req[r].charged})
  /\ \A r \in Reqs : req[r].route = "generate" => ((req[r].created # 0) <=> req[r].charged)

\* C8 witness: one generate request committed its transaction, another was
\* answered after its transaction had failed.
C8_Witness ==
  \E r1, r2 \in Reqs :
    /\ req[r1].route = "generate" /\ req[r1].created # 0 /\ req[r1].charged
    /\ req[r2].route = "generate" /\ req[r2].pc = "done" /\ req[r2].status = 200
    /\ req[r2].cached = 0 /\ req[r2].created = 0 /\ ~req[r2].charged

\* C9: a step of the directory sync changes no credit balance of a User
\* that exists, changes no other User's record, and a User it creates gets
\* the default credit grant; once the gate has passed, the User exists.
C9_SyncPreservesCredits ==
  [][\A r \in Reqs :
       (req[r].pc \in SyncPcs /\ req'[r] # req[r])
         => LET u == TokenOwner[req[r].header.token]
            IN /\ \A v \in DOMAIN users :
                    /\ v \in DOMAIN users'
                    /\ users'[v].credits = users[v].credits
                    /\ v # u => users'[v] = users[v]
               /\ \A v \in DOMAIN users' \ DOMAIN users :
                    v = u /\ users'[v].credits = InitialCredits
               /\ req'[r].entered => u \in DOMAIN users']_vars

\* C9 witness: the profile of a User that existed from the start was
\* updated with its balance kept, and another User was created.
C9_Witness ==
  /\ "u1" \in DOMAIN users /\ "u2" \in DOMAIN users
  /\ users["u1"].name = "n" /\ users["u1"].credits <= MaxInitCredits
  /\ users["u2"].credits = InitialCredits
  /\ \E r \in Reqs : req[r].route = "generate" /\ req[r].charged

\* C10: once the Identity Verifier has accepted the credential and the
\* directory sync is over, failed or not, the identity is attached and the
\* handler is entered.
C10_SyncFailureDoesNotBlock ==
  \A r \in Reqs :
    (req[r].verdict = "user" /\ req[r].pc \notin SyncPcs)
      => /\ req[r].entered
         /\ req[r].user.id = TokenOwner[req[r].header.token]

\* The text holds no newline.
NoNewline(s) == \A i \in 1..Len(s) : s[i] # NL

\* No key point of the list holds a dash.
NoDashes(ps) == \A i \in 1..Len(ps) : \A j \in 1..Len(ps[i]) : ps[i][j] # DASH

\* C11: a Summary whose title holds no newline and whose key points hold no
\* dash, stored by POST /summary/save, is read back by GET /summary/:id with
\* the same title, the same key points and the same full summary.
C11_RoundTrip ==
  \A r, q \in Reqs :
    ( /\ req[r].route = "get" /\ req[r].pc = "done" /\ req[r].status = 200
      /\ req[q].route = "save" /\ req[q].created = req[r].sid
      /\ NoNewline(req[q].summary.title)
      /\ NoDashes(req[q].summary.keyPoints) )
      => req[r].data = req[q].summary

\* C12: a generate request whose generative API call failed is answered
\* with a failure, stores no Summary and deducts no credit.
C12_SummarizerFailureFails ==
  \A r \in Reqs :
    (req[r].route = "generate" /\ req[r].apiFailed)
      => /\ req[r].created = 0
         /\ ~req[r].charged
         /\ req[r].pc = "done" => req[r].status # 200

\* The stored Summaries of owner u.
OwnedBy(u) == {i \in DOMAIN summaries : summaries[i].userId = u}

\* How many Summaries of S are newer than Summary i.
Newer(i, S) == Cardinality({j \in S : summaries[j].createdAt > summaries[i].createdAt})

\* items is page number page, of size size, of the Summaries of owner u in
\* the store, newest first: its k-th item is a Summary of u that has exactly
\* (page - 1) * size + k - 1 newer Summaries of u, and it ends where the
\* page or the Summaries of u end.
IsPage(items, u, page, size) ==
  LET skip == (page - 1) * size
      n == Cardinality(OwnedBy(u))
      rest == IF n - skip > 0 THEN n - skip ELSE 0
  IN /\ Len(items) = (IF rest < size THEN rest ELSE size)
     /\ \A k \in 1..Len(items) :
          /\ items[k] \in OwnedBy(u)
          /\ Newer(items[k], OwnedBy(u)) = skip + k - 1

\* C13: the items GET /summary reads for owner U, page p >= 1 and page size
\* s >= 1 are page p of the Summaries U owns when they are read, newest
\* first, and the total it answers with is the number of Summaries U owns
\* when they are counted; the success response carries these items.
C13_ListPaging ==
  [][\A r \in Reqs :
       /\ (req[r].pc = "listFindMany" /\ req'[r].pc = "listCount")
            => IsPage(req'[r].items, req[r].user.id, req[r].page, req[r].limit)
       /\ (req[r].pc = "listCount" /\ req'[r].status = 200)
            => /\ req'[r].total = Cardinality(OwnedBy(req[r].user.id))
               /\ req'[r].items = req[r].items]_vars

\* C13 witness: the store holds a Summary of another owner; one listing was
\* answered with the first page of two, whose newest Summary has the smaller
\* id, another with the second page of one, which is the older Summary.
C13_Witness ==
  \E r1, r2 \in Reqs :
    /\ req[r1].route = "list" /\ req[r1].pc = "done" /\ req[r1].status = 200
    /\ req[r1].page = 1 /\ Len(req[r1].items) = 2 /\ req[r1].items[1] < req[r1].items[2]
    /\ req[r1].total = 2
    /\ req[r2].route = "list" /\ req[r2].pc = "done" /\ req[r2].status = 200
    /\ req[r2].page = 2 /\ req[r2].limit = 1 /\ req[r2].items = <<req[r1].items[2]>>
    /\ OwnedBy("u1") # DOMAIN summaries

\* C14: the owner reference of every stored Summary is the id of a User
\* in the directory.
C14_OwnerExists == \A i \in DOMAIN summaries : summaries[i].userId \in DOMAIN users

\* C14 witness: a generate and a save have each stored a Summary, one of
\* them for a User the gate created.
C14_Witness ==
  \E r1, r2 \in Reqs :
    /\ req[r1].route = "generate" /\ req[r1].created \in DOMAIN summaries
    /\ req[r2].route = "save" /\ req[r2].created \in DOMAIN summaries
    /\ req[r1].user.id # req[r2].user.id
    /\ users[req[r2].user.id].credits = InitialCredits

\* C15: a generate request calls the Summarizer, and deducts a credit, only
\* after its credit check has read the balance and found it >= 1.
C15_CheckedBeforeCall ==
  \A r \in Reqs :
    (req[r].route = "generate" /\ (req[r].called \/ req[r].charged))
      => req[r].checked = "ok"

\* C16: a generate request answered with success and with freshly generated
\* content has committed its Summary and its credit decrement.
C16_PersistBeforeRespond ==
  \A r \in Reqs :
    ( /\ req[r].route = "generate" /\ req[r].pc = "done"
      /\ req[r].status = 200 /\ req[r].cached = 0 )
      => /\ req[r].created # 0
         /\ req[r].charged

\* The generative API is being called, or has answered, for the request.
ReachedApi(r) == req[r].pc \in {"summarize", "transaction"} \/ req[r].summary # EmptyContent

\* C17: a generate request whose content is empty or blank never reaches the
\* generative API, stores no Summary, deducts no credit and is answered 400.
C17_BlankContentRejected ==
  \A r \in Reqs :
    ( /\ req[r].route = "generate" /\ req[r].entered
      /\ req[r].pc # "handler"
      /\ req[r].content \in {"", "blank"} )
      => /\ ~ReachedApi(r)
         /\ req[r].created = 0
         /\ ~req[r].charged
         /\ req[r].pc = "done" => req[r].status = 400

\* C18: the Summary a generate request is answered with from the cache, when
\* it is another user's, was made by a generate request for the same video:
\* it is never one that a client stored with POST /summary/save.
C18_CacheServesGenerated ==
  \A r \in Reqs :
    ( /\ ValidGenerate(r) /\ req[r].cached # 0
      /\ req[Creator(req[r].cached)].user.id # req[r].user.id )
      => /\ req[Creator(req[r].cached)].route = "generate"
         /\ req[Creator(req[r].cached)].video = req[r].video

\* C19: every request that is issued is answered in the end, and answered
\* once: it holds a response exactly when its code has returned, and nothing
\* of it changes after that; in particular a request the gate has answered
\* never enters the handler.
C19_ExactlyOneResponse ==
  /\ [](\A r \in Reqs : (req[r].status # 0) <=> (req[r].pc = "done"))
  /\ [][\A r \in Reqs : req[r].pc = "done" => req'[r] = req[r]]_vars
  /\ \A r \in Reqs : (req[r].pc # "idle") ~> (req[r].pc = "done")

\* C19 witness: a generate that went through every await of its handler
\* and a delete that found no Summary to delete are both answered.
C19_Witness ==
  \E r1, r2 \in Reqs :
    /\ req[r1].route = "generate" /\ req[r1].pc = "done" /\ req[r1].created # 0
    /\ req[r2].route = "delete" /\ req[r2].pc = "done" /\ req[r2].status = 404

====
